---- MODULE Spec2Model ----
(***************************************************************************)
(* A model of the JinWeb router (Router.ts): the per-method route trie,    *)
(* the path-pattern compiler, request dispatch with its middleware chain,  *)
(* and the controller mapping convention.                                  *)
(*                                                                         *)
(* Strings are sequences of one-character strings, so that splitting,      *)
(* joining, prefix tests and parseInt are computed, not assumed.           *)
(***************************************************************************)
EXTENDS Integers, Sequences, FiniteSets, TLC

VARIABLES
    methods,            \* Router.methods: method -> trie (key path -> TrieNode)
    globalMiddlewares,  \* Router.globalMiddlewares
    registry,           \* history: (method, segments) -> last registration made
    pc,                 \* position of the route() call in flight
    request,            \* the request being dispatched
    node,               \* route(): the local `node` (a key path of the trie)
    params,             \* route(): the local `params`
    stage,              \* the chain stage about to be entered
    stack,              \* middlewares entered and not yet returned
    ret,                \* the response travelling back up the chain
    log,                \* history: stages started, in order
    response,           \* what route() resolved to
    suspended           \* the route() calls waiting at an await: their locals

vars == <<methods, globalMiddlewares, registry, pc, request, node, params,
          stage, stack, ret, log, response, suspended>>

(***************************************************************************)
(* Strings                                                                 *)
(***************************************************************************)
S(c) == <<c>>

Digits == <<"0", "1", "2", "3", "4", "5", "6", "7", "8", "9">>

WordChars ==
    {"a", "b", "c", "d", "e", "f", "g", "h", "i", "j", "k", "l", "m", "n", "o",
     "p", "q", "r", "s", "t", "u", "v", "w", "x", "y", "z", "_"}
    \cup {Digits[k] : k \in 1..10}

startsWith(s, prefix) ==
    /\ Len(s) >= Len(prefix)
    /\ SubSeq(s, 1, Len(prefix)) = prefix

RECURSIVE join(_, _)
join(parts, sep) ==
    IF parts = <<>> THEN <<>>
    ELSE IF Len(parts) = 1 THEN parts[1]
    ELSE parts[1] \o sep \o join(Tail(parts), sep)

\* Array.prototype.indexOf, 0-based; -1 when absent.
indexOf(arr, x) ==
    IF \E k \in 1..Len(arr) : arr[k] = x
    THEN (CHOOSE k \in 1..Len(arr) :
            /\ arr[k] = x
            /\ \A j \in 1..(k - 1) : arr[j] # x) - 1
    ELSE -1

\* Array.prototype.slice(start), start 0-based and non-negative.
slice(arr, start) == SubSeq(arr, start + 1, Len(arr))

\* Index just past the maximal run of non-"/" characters that starts at i.
RECURSIVE RunEnd(_, _)
RunEnd(s, i) ==
    IF i > Len(s) \/ s[i] = "/" THEN i ELSE RunEnd(s, i + 1)

\* url.pathname.split("/").filter(Boolean)
RECURSIVE SegmentsFrom(_, _)
SegmentsFrom(s, i) ==
    IF i > Len(s) THEN <<>>
    ELSE IF s[i] = "/" THEN SegmentsFrom(s, i + 1)
    ELSE <<SubSeq(s, i, RunEnd(s, i) - 1)>> \o SegmentsFrom(s, RunEnd(s, i))

pathSegments(pathname) == SegmentsFrom(pathname, 1)

(***************************************************************************)
(* PathCompiler: splitPath and createPattern                               *)
(***************************************************************************)
\* Position of the ")" closing the lazy group \(.+?\) opened at i, or 0.
FirstClose(s, i) ==
    IF \E j \in (i + 2)..Len(s) : s[j] = ")"
    THEN CHOOSE j \in (i + 2)..Len(s) :
            /\ s[j] = ")"
            /\ \A k \in (i + 2)..(j - 1) : s[k] # ")"
    ELSE 0

\* path.match(/(\(.+?\))|(:[^/]+)|(\*[^/]+)|([^/]+)/g): at a "(" the group
\* alternative wins when it can close; every other alternative that matches
\* at a position matches the maximal run of non-"/" characters.
RECURSIVE SplitFrom(_, _)
SplitFrom(s, i) ==
    IF i > Len(s) THEN <<>>
    ELSE IF s[i] = "(" /\ FirstClose(s, i) # 0
    THEN <<SubSeq(s, i, FirstClose(s, i))>> \o SplitFrom(s, FirstClose(s, i) + 1)
    ELSE IF s[i] = "/" THEN SplitFrom(s, i + 1)
    ELSE <<SubSeq(s, i, RunEnd(s, i) - 1)>> \o SplitFrom(s, RunEnd(s, i))

splitPath(path) == SplitFrom(path, 1)

\* Index just past the run of \w characters that starts at i.
RECURSIVE WordEnd(_, _)
WordEnd(s, i) ==
    IF i > Len(s) \/ s[i] \notin WordChars THEN i ELSE WordEnd(s, i + 1)

\* Index of the ")" ending a run of one or more non-")" characters from i, or 0.
GroupClose(s, i) ==
    IF i <= Len(s) /\ s[i] # ")" /\ \E j \in (i + 1)..Len(s) : s[j] = ")"
    THEN CHOOSE j \in (i + 1)..Len(s) :
            /\ s[j] = ")"
            /\ \A k \in i..(j - 1) : s[k] # ")"
    ELSE 0

\* .replace(/\/\(([^)]+)\)/g, "(?:/$1)?")
RECURSIVE ReplaceGroups(_, _)
ReplaceGroups(s, i) ==
    IF i > Len(s) THEN <<>>
    ELSE IF s[i] = "/" /\ i < Len(s) /\ s[i + 1] = "(" /\ GroupClose(s, i + 2) # 0
    THEN <<"(", "?", ":", "/">> \o SubSeq(s, i + 2, GroupClose(s, i + 2) - 1)
            \o <<")", "?">> \o ReplaceGroups(s, GroupClose(s, i + 2) + 1)
    ELSE <<s[i]>> \o ReplaceGroups(s, i + 1)

\* .replace(/<sigil>\w+/g, with)
RECURSIVE ReplaceSigil(_, _, _, _)
ReplaceSigil(s, i, sigil, with) ==
    IF i > Len(s) THEN <<>>
    ELSE IF s[i] = sigil /\ WordEnd(s, i + 1) > i + 1
    THEN with \o ReplaceSigil(s, WordEnd(s, i + 1), sigil, with)
    ELSE <<s[i]>> \o ReplaceSigil(s, i + 1, sigil, with)

\* The source of the RegExp that createPattern compiles.
createPattern(path) ==
    LET groups == ReplaceGroups(path, 1)
        named  == ReplaceSigil(groups, 1, ":", <<"(", "[", "^", "/", "]", "+", ")">>)
        splats == ReplaceSigil(named, 1, "*", <<"(", ".", "+", "?", ")">>)
    IN  <<"^">> \o splats \o <<"(", "?", ":", "\\", "?", "|", "$", ")">>

\* Whether the regular-expression source re has the text lit at index i.
LookingAt(re, i, lit) ==
    i + Len(lit) - 1 <= Len(re) /\ SubSeq(re, i, i + Len(lit) - 1) = lit

\* Index of the ")" that closes the group whose content starts at i.
RECURSIVE CloseOf(_, _, _)
CloseOf(re, i, depth) ==
    IF i > Len(re) THEN 0
    ELSE IF re[i] = "(" THEN CloseOf(re, i + 1, depth + 1)
    ELSE IF re[i] = ")"
    THEN IF depth = 0 THEN i ELSE CloseOf(re, i + 1, depth - 1)
    ELSE CloseOf(re, i + 1, depth)

\* Whether the source re, read from index i, matches s from position j on.
\* The sources are those createPattern writes: literal characters, ([^/]+),
\* (.+?), optional groups (?:...)? and the final (?:\?|$).
RECURSIVE MatchFrom(_, _, _, _)
MatchFrom(re, i, s, j) ==
    IF i > Len(re) THEN TRUE
    ELSE IF LookingAt(re, i, <<"(", "?", ":", "\\", "?", "|", "$", ")">>)
    THEN \/ j > Len(s) /\ MatchFrom(re, i + 8, s, j)
         \/ j <= Len(s) /\ s[j] = "?" /\ MatchFrom(re, i + 8, s, j + 1)
    ELSE IF LookingAt(re, i, <<"(", "[", "^", "/", "]", "+", ")">>)
    THEN \E n \in 1..(Len(s) - j + 1) :
            /\ \A k \in j..(j + n - 1) : s[k] # "/"
            /\ MatchFrom(re, i + 7, s, j + n)
    ELSE IF LookingAt(re, i, <<"(", ".", "+", "?", ")">>)
    THEN \E n \in 1..(Len(s) - j + 1) : MatchFrom(re, i + 5, s, j + n)
    ELSE IF LookingAt(re, i, <<"(", "?", ":">>)
    THEN LET close == CloseOf(re, i + 3, 0)
             rest  == SubSeq(re, close + 2, Len(re))
         IN  /\ close # 0
             /\ LookingAt(re, close + 1, <<"?">>)
             /\ \/ MatchFrom(SubSeq(re, i + 3, close - 1) \o rest, 1, s, j)
                \/ MatchFrom(rest, 1, s, j)
    ELSE /\ j <= Len(s)
         /\ s[j] = re[i]
         /\ MatchFrom(re, i + 1, s, j + 1)

\* pattern.test(s) for a pattern compiled by createPattern (anchored by "^").
test(pattern, s) == LookingAt(pattern, 1, <<"^">>) /\ MatchFrom(pattern, 2, s, 1)

\* parseInt(string) in radix 10: an optional sign, then the longest prefix of
\* decimal digits; NaN when there is none (and for undefined).
DigitValue(c) == (CHOOSE k \in 1..10 : Digits[k] = c) - 1

IsDigit(c) == \E k \in 1..10 : Digits[k] = c

RECURSIVE DigitsValue(_, _, _)
DigitsValue(s, i, acc) ==
    IF i > Len(s) \/ ~IsDigit(s[i]) THEN acc
    ELSE DigitsValue(s, i + 1, acc * 10 + DigitValue(s[i]))

NaN == [nan |-> TRUE, value |-> 0]

parseInt(s) ==
    LET signed == Len(s) >= 1 /\ s[1] \in {"+", "-"}
        from   == IF signed THEN 2 ELSE 1
    IN  IF from > Len(s) \/ ~IsDigit(s[from]) THEN NaN
        ELSE [nan |-> FALSE,
              value |-> IF signed /\ s[1] = "-"
                        THEN 0 - DigitsValue(s, from, 0)
                        ELSE DigitsValue(s, from, 0)]

(***************************************************************************)
(* TrieNode and Router state                                               *)
(***************************************************************************)
Methods == {"GET", "POST", "PUT", "DELETE", "PATCH", "OPTIONS"}

PARAM == <<":", "p", "a", "r", "a", "m">>
SPLAT == <<"*", "s", "p", "l", "a", "t">>

\* A field that was never assigned (callback!, paramName!, ...).
undefined == <<>>
NoCallback == [kind |-> "undefined", name |-> "", op |-> ""]

\* new TrieNode(): the children are the key paths that extend the node's own.
TrieNode ==
    [callback    |-> NoCallback,
     pattern     |-> undefined,
     paramName   |-> undefined,
     splatName   |-> undefined,
     middlewares |-> <<>>]

Root == <<>>

has(trie, at, key) == Append(at, key) \in DOMAIN trie

paramMatch(segment) == Len(segment) >= 2 /\ segment[1] = ":"
splatMatch(segment) == Len(segment) >= 2 /\ segment[1] = "*"

\* descend as it would be if an existing parameter or splat child took the
\* name written in the pattern being registered.
RECURSIVE descendRenaming(_, _, _)
descendRenaming(trie, at, segments) ==
    IF segments = <<>> THEN [trie |-> trie, node |-> at]
    ELSE
        LET segment == Head(segments)
            key   == IF paramMatch(segment) THEN PARAM
                     ELSE IF splatMatch(segment) THEN SPLAT
                     ELSE segment
            child == Append(at, key)
            old   == IF has(trie, at, key) THEN trie[child] ELSE TrieNode
            named == IF paramMatch(segment)
                     THEN [old EXCEPT !.paramName = Tail(segment)]
                     ELSE IF splatMatch(segment)
                     THEN [old EXCEPT !.splatName = Tail(segment)]
                     ELSE old
            grown == [n \in DOMAIN trie \cup {child} |->
                         IF n = child THEN named ELSE trie[n]]
        IN  descendRenaming(grown, child, Tail(segments))

\* The segments.forEach of addRoute: walk the trie, creating missing children.
RECURSIVE descend(_, _, _)
descend(trie, at, segments) ==
    IF segments = <<>> THEN [trie |-> trie, node |-> at]
    ELSE
        LET segment == Head(segments)
            key   == IF paramMatch(segment) THEN PARAM
                     ELSE IF splatMatch(segment) THEN SPLAT
                     ELSE segment
            fresh == IF paramMatch(segment)
                     THEN [TrieNode EXCEPT !.paramName = Tail(segment)]
                     ELSE IF splatMatch(segment)
                     THEN [TrieNode EXCEPT !.splatName = Tail(segment)]
                     ELSE TrieNode
            child == Append(at, key)
            grown == IF has(trie, at, key) THEN trie ELSE (child :> fresh) @@ trie
        IN  descend(grown, child, Tail(segments))

\* insertRoute as it would be if the forEach never advanced `node`: the handler
\* lands on the root.
insertRouteOnRoot(root, path, callback, middlewares) ==
    LET end == descend(root, Root, splitPath(path))
    IN  [end.trie EXCEPT ![Root] =
            [@ EXCEPT !.callback    = callback,
                      !.pattern     = createPattern(path),
                      !.middlewares = middlewares]]

\* insertRoute as it would be if a node that already has a handler kept it,
\* with its pattern and middleware list.
insertRouteKeepFirst(root, path, callback, middlewares) ==
    LET end == descend(root, Root, splitPath(path))
    IN  IF end.trie[end.node].callback # NoCallback
        THEN end.trie
        ELSE [end.trie EXCEPT ![end.node] =
                [@ EXCEPT !.callback    = callback,
                          !.pattern     = createPattern(path),
                          !.middlewares = middlewares]]

\* addRoute on the trie of one method.
insertRoute(root, path, callback, middlewares) ==
    LET end == descend(root, Root, splitPath(path))
    IN  [end.trie EXCEPT ![end.node] =
            [@ EXCEPT !.callback    = callback,
                      !.pattern     = createPattern(path),
                      !.middlewares = middlewares]]

Init ==
    /\ methods = [m \in Methods |-> (Root :> TrieNode)]
    /\ globalMiddlewares = <<>>
    /\ registry = <<>>
    /\ pc = "idle"
    /\ request = <<>>
    /\ node = Root
    /\ params = <<>>
    /\ stage = <<>>
    /\ stack = <<>>
    /\ ret = <<>>
    /\ log = <<>>
    /\ response = <<>>
    /\ suspended = <<>>

(***************************************************************************)
(* Requests, responses, middlewares, controllers                           *)
(***************************************************************************)
Response(status, body, data) ==
    [threw |-> FALSE, status |-> status, body |-> body, data |-> data]

\* A rejected promise: the error propagates to the caller of route().
Thrown(error) == [threw |-> TRUE, status |-> 0, body |-> error, data |-> <<>>]

send404 == Response(404, "Not found", <<>>)

ApplicationJson ==
    <<"a", "p", "p", "l", "i", "c", "a", "t", "i", "o", "n", "/", "j", "s", "o", "n">>
FormUrlEncoded ==
    <<"a", "p", "p", "l", "i", "c", "a", "t", "i", "o", "n", "/", "x", "-", "w", "w", "w",
      "-", "f", "o", "r", "m", "-", "u", "r", "l", "e", "n", "c", "o", "d", "e", "d">>
MultipartFormData ==
    <<"m", "u", "l", "t", "i", "p", "a", "r", "t", "/", "f", "o", "r", "m", "-", "d", "a",
      "t", "a">>

\* params[key] = value
set(map, key, value) ==
    [k \in DOMAIN map \cup {key} |-> IF k = key THEN value ELSE map[k]]

\* for (const [key, value] of entries) params[key] = value
RECURSIVE assignAll(_, _)
assignAll(map, entries) ==
    IF entries = <<>> THEN map
    ELSE assignAll(set(map, Head(entries)[1], Head(entries)[2]), Tail(entries))

\* A middleware is its name and what it does with the continuation:
\*   pass    return await next()
\*   block   return its own response, next() never called
\*   replace await next(), then return its own response
\*   twice   await next(); return await next()
Behaviours == {"pass", "block", "replace", "twice"}

Middleware(name, does) == [name |-> name, does |-> does]

ownResponse(mw) == Response(403, mw.name, <<>>)

\* index.ts: users with ids 1..NumUsers; find is users.find(u => u.id === id).
NumUsers == 10

find(id) ==
    IF ~id.nan /\ id.value \in 1..NumUsers
    THEN [found |-> TRUE, id |-> id.value]
    ELSE [found |-> FALSE, id |-> 0]

Id == <<"i", "d">>

Callback(name) == [kind |-> "fn", name |-> name, op |-> ""]
Bound(controller, op) == [kind |-> "bound", name |-> controller, op |-> op]
ModelShow(controller) == [kind |-> "modelShow", name |-> controller, op |-> "show"]
ModelCreate(controller) == [kind |-> "modelCreate", name |-> controller, op |-> "create"]

Started(kind, index, who, arg) ==
    [stage |-> kind, index |-> index, who |-> who, arg |-> arg]

\* invoke as it would be if the create wrapper tested the Content-Type the way
\* route() does, with startsWith.
invokePrefixTest(callback, req, prm) ==
    LET entered == Started("h", 0, callback.name, <<callback.op>>)
    IN
    CASE callback.kind = "fn" ->
            [log |-> <<entered>>, ret |-> Response(200, callback.name, <<>>)]
      [] callback.kind = "bound" ->
            [log |-> <<entered, Started("op", 0, callback.op, <<>>)>>,
             ret |-> Response(200, callback.op, <<>>)]
      [] callback.kind = "modelShow" ->
            LET model == find(IF Id \in DOMAIN prm THEN parseInt(prm[Id]) ELSE NaN)
            IN  IF model.found
                THEN [log |-> <<entered, Started("op", 0, "show", <<model.id>>)>>,
                      ret |-> Response(200, "show", <<model.id>>)]
                ELSE [log |-> <<entered>>, ret |-> send404]
      [] callback.kind = "modelCreate" ->
            IF startsWith(req.contentType, ApplicationJson)
            THEN IF req.bodyUsed
                 THEN [log |-> <<entered>>, ret |-> Thrown("Body already used")]
                 ELSE [log |-> <<entered, Started("op", 0, "create", req.body)>>,
                       ret |-> Response(201, "create", req.body)]
            ELSE [log |-> <<entered>>,
                  ret |-> Response(415, "Unsupported Media Type", <<>>)]

\* What invoking node.callback(request, params) does: the stages it starts
\* and the response (or error) it settles with.
invoke(callback, req, prm) ==
    LET entered == Started("h", 0, callback.name, <<callback.op>>)
    IN
    CASE callback.kind = "fn" ->
            [log |-> <<entered>>, ret |-> Response(200, callback.name, <<>>)]
      [] callback.kind = "bound" ->
            [log |-> <<entered, Started("op", 0, callback.op, <<>>)>>,
             ret |-> Response(200, callback.op, <<>>)]
      [] callback.kind = "modelShow" ->
            LET model == find(IF Id \in DOMAIN prm THEN parseInt(prm[Id]) ELSE NaN)
            IN  IF model.found
                THEN [log |-> <<entered, Started("op", 0, "show", <<model.id>>)>>,
                      ret |-> Response(200, "show", <<model.id>>)]
                ELSE [log |-> <<entered>>, ret |-> send404]
      [] callback.kind = "modelCreate" ->
            IF req.contentType = ApplicationJson
            THEN IF req.bodyUsed
                 THEN [log |-> <<entered>>, ret |-> Thrown("Body already used")]
                 ELSE [log |-> <<entered, Started("op", 0, "create", req.body)>>,
                       ret |-> Response(201, "create", req.body)]
            ELSE [log |-> <<entered>>,
                  ret |-> Response(415, "Unsupported Media Type", <<>>)]

(***************************************************************************)
(* Registration                                                            *)
(***************************************************************************)
Idle == pc = "idle"

dispatchVars == <<pc, request, node, params, stage, stack, ret, log, response>>

\* History only: the last registration made for a method and segment list.
record(reg, method, path, callback, middlewares) ==
    set(reg, <<method, pathSegments(path)>>,
        [path |-> path, callback |-> callback, middlewares |-> middlewares])

\* Router.use
use(middleware) ==
    /\ Idle
    /\ globalMiddlewares' = Append(globalMiddlewares, middleware)
    /\ UNCHANGED <<methods, registry, dispatchVars, suspended>>

\* addRoute as it would be if the constructor had stored one TrieNode object
\* under all six methods: the route lands in every method's trie.
addRouteSharedRoot(method, path, callback, middlewares) ==
    /\ Idle
    /\ methods' = [m \in Methods |->
                     insertRoute(methods[m], path, callback, middlewares)]
    /\ registry' = record(registry, method, path, callback, middlewares)
    /\ UNCHANGED <<globalMiddlewares, dispatchVars, suspended>>

\* Router.addRoute (and get/post/put/delete/patch/options, which forward to it)
addRoute(method, path, callback, middlewares) ==
    /\ Idle
    /\ methods' = [methods EXCEPT
                     ![method] = insertRoute(@, path, callback, middlewares)]
    /\ registry' = record(registry, method, path, callback, middlewares)
    /\ UNCHANGED <<globalMiddlewares, dispatchVars, suspended>>

(***************************************************************************)
(* Dispatch: Router.route                                                  *)
(***************************************************************************)
\* walk as it would be if the parameter child were tried before the literal
\* child.
RECURSIVE walkParamFirst(_, _, _, _, _)
walkParamFirst(trie, at, pathname, k, prm) ==
    IF k > Len(pathname) THEN [found |-> TRUE, node |-> at, params |-> prm]
    ELSE
        LET segment == pathname[k] IN
        IF has(trie, at, PARAM)
        THEN walkParamFirst(trie, Append(at, PARAM), pathname, k + 1,
                  set(prm, trie[Append(at, PARAM)].paramName, segment))
        ELSE IF has(trie, at, segment)
        THEN walkParamFirst(trie, Append(at, segment), pathname, k + 1, prm)
        ELSE IF has(trie, at, SPLAT)
        THEN [found  |-> TRUE,
              node   |-> Append(at, SPLAT),
              params |-> set(prm, trie[Append(at, SPLAT)].splatName,
                             join(slice(pathname, indexOf(pathname, segment)),
                                  <<"/">>))]
        ELSE [found |-> FALSE, node |-> at, params |-> prm]

\* walk as it would be if a parameter were bound only when the name is not
\* yet in the map, so that a query or body value of that name survived.
RECURSIVE walkKeepingMerged(_, _, _, _, _)
walkKeepingMerged(trie, at, pathname, k, prm) ==
    IF k > Len(pathname) THEN [found |-> TRUE, node |-> at, params |-> prm]
    ELSE
        LET segment == pathname[k] IN
        IF has(trie, at, segment)
        THEN walkKeepingMerged(trie, Append(at, segment), pathname, k + 1, prm)
        ELSE IF has(trie, at, PARAM)
        THEN walkKeepingMerged(trie, Append(at, PARAM), pathname, k + 1,
                  IF trie[Append(at, PARAM)].paramName \in DOMAIN prm
                  THEN prm
                  ELSE set(prm, trie[Append(at, PARAM)].paramName, segment))
        ELSE IF has(trie, at, SPLAT)
        THEN [found  |-> TRUE,
              node   |-> Append(at, SPLAT),
              params |-> set(prm, trie[Append(at, SPLAT)].splatName,
                             join(slice(pathname, indexOf(pathname, segment)),
                                  <<"/">>))]
        ELSE [found |-> FALSE, node |-> at, params |-> prm]

\* The trie walk of route(): literal child, then ":param", then "*splat".
RECURSIVE walk(_, _, _, _, _)
walk(trie, at, pathname, k, prm) ==
    IF k > Len(pathname) THEN [found |-> TRUE, node |-> at, params |-> prm]
    ELSE
        LET segment == pathname[k] IN
        IF has(trie, at, segment)
        THEN walk(trie, Append(at, segment), pathname, k + 1, prm)
        ELSE IF has(trie, at, PARAM)
        THEN walk(trie, Append(at, PARAM), pathname, k + 1,
                  set(prm, trie[Append(at, PARAM)].paramName, segment))
        ELSE IF has(trie, at, SPLAT)
        THEN [found  |-> TRUE,
              node   |-> Append(at, SPLAT),
              params |-> set(prm, trie[Append(at, SPLAT)].splatName,
                             join(slice(pathname, indexOf(pathname, segment)),
                                  <<"/">>))]
        ELSE [found |-> FALSE, node |-> at, params |-> prm]

\* request.method.toUpperCase(), for the method names of the model's requests:
\* the upper-case names and the lower-case spellings "patch" and "get".
toUpperCase(method) ==
    CASE method = "patch" -> "PATCH"
      [] method = "get"   -> "GET"
      [] OTHER            -> method

\* Whether route() awaits a body reader before the walk.
readsBody(req) ==
    /\ req.method # "GET"
    /\ \/ startsWith(req.contentType, ApplicationJson)
       \/ startsWith(req.contentType, FormUrlEncoded)
       \/ startsWith(req.contentType, MultipartFormData)

\* From the walk to the first call of executeGlobalMiddlewares(0).
match(req, prm) ==
    LET w == walk(methods[toUpperCase(req.method)], Root, pathSegments(req.pathname),
                  1, prm)
    IN  IF w.found
        THEN /\ node' = w.node
             /\ params' = w.params
             /\ stage' = [kind |-> "g", index |-> 0]
             /\ pc' = "call"
             /\ UNCHANGED response
        ELSE /\ response' = send404
             /\ pc' = "done"
             /\ UNCHANGED <<node, params, stage>>

\* route as it would be if the parameter map were one object shared by the
\* calls in flight instead of a local of each call.
routeSharedParams(req) ==
    LET shared == IF suspended = <<>> THEN <<>> ELSE suspended[1].params
    IN
    /\ Idle
    /\ log' = <<>>
    /\ stack' = <<>>
    /\ UNCHANGED <<suspended, methods, globalMiddlewares, registry, ret>>
    /\ IF toUpperCase(req.method) \notin Methods
       THEN /\ response' = send404
            /\ pc' = "done"
            /\ request' = req
            /\ UNCHANGED <<node, params, stage>>
       ELSE IF readsBody(req)
       THEN /\ pc' = "body"
            /\ request' = req
            /\ UNCHANGED <<node, params, stage, response>>
       ELSE /\ request' = req
            /\ match(req, IF req.method = "GET"
                          THEN assignAll(shared, req.query) ELSE shared)

route(req) ==
    /\ Idle
    /\ log' = <<>>
    /\ stack' = <<>>
    /\ UNCHANGED <<suspended, methods, globalMiddlewares, registry, ret>>
    /\ IF toUpperCase(req.method) \notin Methods
       THEN /\ response' = send404
            /\ pc' = "done"
            /\ request' = req
            /\ UNCHANGED <<node, params, stage>>
       ELSE IF readsBody(req)
       THEN /\ pc' = "body"
            /\ request' = req
            /\ UNCHANGED <<node, params, stage, response>>
       ELSE /\ request' = req
            /\ match(req, IF req.method = "GET"
                          THEN assignAll(<<>>, req.query) ELSE <<>>)

\* The continuation of `await request.json()` (or text(), or formData()).
decodeBody ==
    /\ pc = "body"
    /\ request' = [request EXCEPT !.bodyUsed = TRUE]
    /\ match(request, assignAll(<<>>, request.body))
    /\ UNCHANGED <<suspended, methods, globalMiddlewares, registry, stack, ret, log>>

\* enter as it would be if the chain went on after a middleware that returned
\* without calling next().
enterAndGoOn(kind, index, mw) ==
    /\ log' = Append(log, Started(kind, index, mw.name, <<>>))
    /\ stack' = Append(stack, [kind |-> kind, index |-> index,
                               mw |-> mw, calls |-> 1])
    /\ stage' = [kind |-> kind, index |-> index + 1]
    /\ UNCHANGED <<pc, ret>>

\* Entering a middleware: it runs to its first await of next(), or returns.
enter(kind, index, mw) ==
    /\ log' = Append(log, Started(kind, index, mw.name, <<>>))
    /\ IF mw.does = "block"
       THEN /\ ret' = ownResponse(mw)
            /\ pc' = "ret"
            /\ UNCHANGED <<stage, stack>>
       ELSE /\ stack' = Append(stack, [kind |-> kind, index |-> index,
                                       mw |-> mw, calls |-> 1])
            /\ stage' = [kind |-> kind, index |-> index + 1]
            /\ UNCHANGED <<pc, ret>>

\* executeGlobalMiddlewares as it would be if the last global middleware's
\* continuation went straight to handleRoute.
executeGlobalMiddlewaresThenHandler ==
    /\ pc = "call"
    /\ stage.kind = "g"
    /\ IF stage.index >= Len(globalMiddlewares)
       THEN /\ stage' = [kind |-> "h", index |-> 0]
            /\ UNCHANGED <<pc, stack, ret, log>>
       ELSE enter("g", stage.index, globalMiddlewares[stage.index + 1])
    /\ UNCHANGED <<suspended, methods, globalMiddlewares, registry, request, node, params,
                   response>>

executeGlobalMiddlewares ==
    /\ pc = "call"
    /\ stage.kind = "g"
    /\ IF stage.index >= Len(globalMiddlewares)
       THEN /\ stage' = [kind |-> "r", index |-> 0]
            /\ UNCHANGED <<pc, stack, ret, log>>
       ELSE enter("g", stage.index, globalMiddlewares[stage.index + 1])
    /\ UNCHANGED <<suspended, methods, globalMiddlewares, registry, request, node, params,
                   response>>

executeRouteMiddlewares ==
    /\ pc = "call"
    /\ stage.kind = "r"
    /\ LET middlewares == methods[toUpperCase(request.method)][node].middlewares IN
       IF stage.index >= Len(middlewares)
       THEN /\ stage' = [kind |-> "h", index |-> 0]
            /\ UNCHANGED <<pc, stack, ret, log>>
       ELSE enter("r", stage.index, middlewares[stage.index + 1])
    /\ UNCHANGED <<suspended, methods, globalMiddlewares, registry, request, node, params,
                   response>>

handleRoute ==
    /\ pc = "call"
    /\ stage.kind = "h"
    /\ LET callback == methods[toUpperCase(request.method)][node].callback IN
       IF callback # NoCallback
       THEN LET done == invoke(callback, request, params) IN
            /\ log' = log \o done.log
            /\ ret' = done.ret
       ELSE /\ ret' = send404
            /\ UNCHANGED log
    /\ pc' = "ret"
    /\ UNCHANGED <<suspended, methods, globalMiddlewares, registry, request, node, params,
                   stage, stack, response>>

\* next() settles: the middleware on top of the stack continues.
resume ==
    /\ pc = "ret"
    /\ stack # <<>>
    /\ LET frame == stack[Len(stack)]
           below == SubSeq(stack, 1, Len(stack) - 1)
       IN  IF ~ret.threw /\ frame.mw.does = "twice" /\ frame.calls = 1
           THEN /\ stack' = Append(below, [frame EXCEPT !.calls = 2])
                /\ stage' = [kind |-> frame.kind, index |-> frame.index + 1]
                /\ pc' = "call"
                /\ UNCHANGED ret
           ELSE /\ stack' = below
                /\ ret' = IF ~ret.threw /\ frame.mw.does = "replace"
                          THEN ownResponse(frame.mw) ELSE ret
                /\ UNCHANGED <<pc, stage>>
    /\ UNCHANGED <<suspended, methods, globalMiddlewares, registry, request, node, params,
                   log, response>>

\* `return await executeGlobalMiddlewares(0)` settles route().
settle ==
    /\ pc = "ret"
    /\ stack = <<>>
    /\ response' = ret
    /\ pc' = "done"
    /\ UNCHANGED <<suspended, methods, globalMiddlewares, registry, request, node, params,
                   stage, stack, ret, log>>

\* The response has been handed to the caller; the router is at rest again.
finish ==
    /\ pc = "done"
    /\ pc' = "idle"
    /\ request' = <<>>
    /\ node' = Root
    /\ params' = <<>>
    /\ stage' = <<>>
    /\ stack' = <<>>
    /\ ret' = <<>>
    /\ log' = <<>>
    /\ response' = <<>>
    /\ UNCHANGED <<suspended, methods, globalMiddlewares, registry>>

\* The locals of the route() call that is running.
Context ==
    [pc |-> pc, request |-> request, node |-> node, params |-> params,
     stage |-> stage, stack |-> stack, ret |-> ret, log |-> log,
     response |-> response]

\* How many calls may wait at an await while another one runs.
MaxSuspended == 1

\* The running call reaches an await whose promise is pending (the body
\* reader, a middleware's or the handler's own await, `await next()`): it
\* keeps its locals and leaves the thread to the host, which may start or
\* continue another call.
suspend ==
    /\ pc \in {"body", "call", "ret"}
    /\ Len(suspended) < MaxSuspended
    /\ suspended' = Append(suspended, Context)
    /\ pc' = "idle"
    /\ request' = <<>>
    /\ node' = Root
    /\ params' = <<>>
    /\ stage' = <<>>
    /\ stack' = <<>>
    /\ ret' = <<>>
    /\ log' = <<>>
    /\ response' = <<>>
    /\ UNCHANGED <<methods, globalMiddlewares, registry>>

\* The promise a waiting call awaits settles: the call continues with the
\* locals it had.
wake ==
    /\ Idle
    /\ \E i \in 1..Len(suspended) :
          /\ pc' = suspended[i].pc
          /\ request' = suspended[i].request
          /\ node' = suspended[i].node
          /\ params' = suspended[i].params
          /\ stage' = suspended[i].stage
          /\ stack' = suspended[i].stack
          /\ ret' = suspended[i].ret
          /\ log' = suspended[i].log
          /\ response' = suspended[i].response
          /\ suspended' = SubSeq(suspended, 1, i - 1)
                             \o SubSeq(suspended, i + 1, Len(suspended))
    /\ UNCHANGED <<methods, globalMiddlewares, registry>>

\* Router.mapModelController: up to three registrations, in source order.  A
\* controller is its name and the set of operations it defines.
mapModelController(path, controller, middlewares) ==
    LET show   == path \o <<"/", ":", "i", "d">>
        name   == controller.name
        t1     == IF "index" \in controller.ops
                  THEN [methods EXCEPT !["GET"] =
                          insertRoute(@, path, Bound(name, "index"), middlewares)]
                  ELSE methods
        r1     == IF "index" \in controller.ops
                  THEN record(registry, "GET", path, Bound(name, "index"), middlewares)
                  ELSE registry
        t2     == IF "show" \in controller.ops
                  THEN [t1 EXCEPT !["GET"] =
                          insertRoute(@, show, ModelShow(name), middlewares)]
                  ELSE t1
        r2     == IF "show" \in controller.ops
                  THEN record(r1, "GET", show, ModelShow(name), middlewares)
                  ELSE r1
        t3     == IF "create" \in controller.ops
                  THEN [t2 EXCEPT !["POST"] =
                          insertRoute(@, path, ModelCreate(name), middlewares)]
                  ELSE t2
        r3     == IF "create" \in controller.ops
                  THEN record(r2, "POST", path, ModelCreate(name), middlewares)
                  ELSE r2
    IN  /\ Idle
        /\ methods' = t3
        /\ registry' = r3
        /\ UNCHANGED <<globalMiddlewares, dispatchVars, suspended>>

\* A list of registrations applied in order to the tries and to the history.
RECURSIVE insertRoutes(_, _)
insertRoutes(tries, routes) ==
    IF routes = <<>> THEN tries
    ELSE LET r == Head(routes)
         IN  insertRoutes([tries EXCEPT ![r.method] =
                              insertRoute(@, r.path, r.callback, r.middlewares)],
                          Tail(routes))

RECURSIVE recordRoutes(_, _)
recordRoutes(reg, routes) ==
    IF routes = <<>> THEN reg
    ELSE LET r == Head(routes)
         IN  recordRoutes(record(reg, r.method, r.path, r.callback, r.middlewares),
                          Tail(routes))

Route(op, method, path, callback, middlewares) ==
    [op |-> op, method |-> method, path |-> path, callback |-> callback,
     middlewares |-> middlewares]

ShowSuffix == <<"/", ":", "i", "d">>

\* controllerRoutes as it would be without the `if (controller.<op>)` tests:
\* every operation is routed, defined or not.
controllerRoutesUnguarded(path, controller, middlewares) ==
    LET name == controller.name
    IN  <<Route("index", "GET", path, Bound(name, "index"), middlewares),
          Route("show", "GET", path \o ShowSuffix, Bound(name, "show"), middlewares),
          Route("create", "POST", path, Bound(name, "create"), middlewares),
          Route("update", "PUT", path, Bound(name, "update"), middlewares),
          Route("delete", "DELETE", path, Bound(name, "delete"), middlewares),
          Route("patch", "PATCH", path, Bound(name, "patch"), <<>>),
          Route("options", "OPTIONS", path, Bound(name, "options"), middlewares)>>

\* The calls Router.mapController makes, in source order, for the operations
\* the controller defines.  The patch line passes no middleware list
\* (`this.patch(path, callback), middlewares;`), so patch() takes its default.
controllerRoutes(path, controller, middlewares) ==
    LET name == controller.name
        all  == <<Route("index", "GET", path, Bound(name, "index"), middlewares),
                  Route("show", "GET", path \o ShowSuffix, Bound(name, "show"),
                        middlewares),
                  Route("create", "POST", path, Bound(name, "create"), middlewares),
                  Route("update", "PUT", path, Bound(name, "update"), middlewares),
                  Route("delete", "DELETE", path, Bound(name, "delete"), middlewares),
                  Route("patch", "PATCH", path, Bound(name, "patch"), <<>>),
                  Route("options", "OPTIONS", path, Bound(name, "options"),
                        middlewares)>>
    IN  SelectSeq(all, LAMBDA r : r.op \in controller.ops)

\* Router.mapController
mapController(path, controller, middlewares) ==
    LET routes == controllerRoutes(path, controller, middlewares)
    IN  /\ Idle
        /\ methods' = insertRoutes(methods, routes)
        /\ registry' = recordRoutes(registry, routes)
        /\ UNCHANGED <<globalMiddlewares, dispatchVars, suspended>>

endsWith(s, c) == Len(s) >= 1 /\ s[Len(s)] = c

\* new RouteGroup(prefix, router, middlewares), as Router.group constructs it.
\* middlewares is the list at the time of a registration: RouteGroup.use
\* pushes onto it.
RouteGroup(prefix, middlewares) ==
    [prefix      |-> IF endsWith(prefix, "/") THEN prefix ELSE prefix \o <<"/">>,
     middlewares |-> middlewares]

\* RouteGroup.addRoute
RouteGroup_addRoute(group, method, path, callback, middlewares) ==
    addRoute(method, group.prefix \o path, callback,
             group.middlewares \o middlewares)

\* RouteGroup.mapController
RouteGroup_mapController(group, path, controller, middlewares) ==
    mapController(group.prefix \o path, controller,
                  group.middlewares \o middlewares)

\* RouteGroup.mapModelController
RouteGroup_mapModelController(group, path, controller, middlewares) ==
    mapModelController(group.prefix \o path, controller,
                       group.middlewares \o middlewares)

(***************************************************************************)
(* Inputs                                                                  *)
(***************************************************************************)
Request(method, pathname, query, contentType, body) ==
    [method |-> method, pathname |-> pathname, query |-> query,
     contentType |-> contentType, body |-> body, bodyUsed |-> FALSE]

Get(pathname) == Request("GET", pathname, <<>>, <<>>, <<>>)

TextPlain == <<"t", "e", "x", "t", "/", "p", "l", "a", "i", "n">>
JsonUtf8 ==
    ApplicationJson \o <<";", " ", "c", "h", "a", "r", "s", "e", "t", "=", "u", "t",
                         "f", "-", "8">>

\* Route patterns
PatA      == <<"/", "a">>
PatAB     == <<"/", "a", "/", "b">>
PatB      == <<"b", "/">>
PatAId    == <<"/", "a", "/", ":", "i">>
PatASplat == <<"/", "a", "/", "*", "r">>
PatAIdB   == <<"/", "a", "/", ":", "i", "/", "b">>
PatUsers  == <<"/", "u">>

\* Request paths
UrlRoot    == <<"/">>
UrlA       == <<"/", "a">>
UrlAB      == <<"/", "a", "/", "b">>
UrlAB2     == <<"/", "/", "a", "/", "/", "b", "/">>
UrlB       == <<"/", "b">>
UrlAX      == <<"/", "a", "/", "x">>
UrlAParam  == <<"/", "a", "/">> \o PARAM
UrlASplat  == <<"/", "a", "/">> \o SPLAT
UrlAXB     == <<"/", "a", "/", "x", "/", "b">>
UrlAAB     == <<"/", "a", "/", "a", "/", "b">>
UrlU       == <<"/", "u">>
UrlU1      == <<"/", "u", "/", "1">>
UrlU7x     == <<"/", "u", "/", "7", "x">>
UrlU99     == <<"/", "u", "/", "9", "9">>
UrlUX      == <<"/", "u", "/", "x">>
UrlUParam  == <<"/", "u", "/">> \o PARAM

\* Bounds
MaxRoutes == 3
MaxChain  == 2

\* At most MaxRoutes distinct (method, segments) are registered; registering
\* one of them again is always possible.
mayRegister(keys) ==
    Cardinality(DOMAIN registry \cup keys) <= MaxRoutes

Handlers == {Callback("h1"), Callback("h2")}

(***************************************************************************)
(* Spec: routes registered with addRoute's default (empty) middleware      *)
(* list and no global middleware; requests over literal, parameter and     *)
(* splat routes.                                                           *)
(***************************************************************************)
RouteMethods == {"GET", "POST"}
Patterns == {PatA, PatAB, PatB, PatAId, PatASplat, PatAIdB}

Urls == {UrlRoot, UrlA, UrlAB, UrlAB2, UrlB, UrlAX, UrlAParam, UrlASplat,
         UrlAXB, UrlAAB}

Requests ==
    {Get(u) : u \in Urls}
    \cup {Request("GET", UrlAX, <<<<S("i"), S("7")>>>>, <<>>, <<>>),
          Request("POST", UrlA, <<>>, <<>>, <<>>),
          Request("POST", UrlAB, <<>>, TextPlain, <<>>),
          Request("POST", UrlAX, <<>>, ApplicationJson, <<<<S("i"), S("7")>>>>),
          Request("HEAD", UrlA, <<>>, <<>>, <<>>)}

Chain ==
    \/ decodeBody
    \/ executeGlobalMiddlewares
    \/ executeRouteMiddlewares
    \/ handleRoute
    \/ settle
    \/ finish

Next ==
    \/ \E m \in RouteMethods, p \in Patterns, cb \in Handlers :
          /\ mayRegister({<<m, pathSegments(p)>>})
          /\ addRoute(m, p, cb, <<>>)
    \/ \E req \in Requests : route(req)
    \/ Chain

Spec == Init /\ [][Next]_vars

(***************************************************************************)
(* SpecChain: one route, GET /a/b, under every chain of up to MaxChain     *)
(* global and MaxChain route middlewares of every behaviour; requests that *)
(* match it, stop on its prefix node or on the root, fail the walk, or     *)
(* name a method without a trie.                                           *)
(***************************************************************************)
\* Middlewares are named by the position at which they are added.
GlobalNames == <<"A", "B", "G3", "G4">>
RouteNames  == <<"C", "D", "R3", "R4">>

RouteChains ==
    UNION {{[k \in 1..n |-> Middleware(RouteNames[k], does[k])] :
                does \in [1..n -> Behaviours]} : n \in 0..MaxChain}

ChainRequests ==
    {Get(UrlAB), Get(UrlA), Get(UrlRoot), Get(UrlB),
     Request("HEAD", UrlAB, <<>>, <<>>, <<>>)}

NextChain ==
    \/ \E does \in Behaviours :
          /\ Len(globalMiddlewares) < MaxChain
          /\ use(Middleware(GlobalNames[Len(globalMiddlewares) + 1], does))
    \/ \E mws \in RouteChains : addRoute("GET", PatAB, Callback("h1"), mws)
    \/ \E req \in ChainRequests : route(req)
    \/ executeGlobalMiddlewares
    \/ executeRouteMiddlewares
    \/ handleRoute
    \/ resume
    \/ settle
    \/ finish

SpecChain == Init /\ [][NextChain]_vars

(***************************************************************************)
(* SpecModel: a model controller mapped at /u with every subset of the     *)
(* operations index, show and create; GET and POST requests with and       *)
(* without a query, a body and a Content-Type.                             *)
(***************************************************************************)
Controllers ==
    {[name |-> "users", ops |-> ops] : ops \in SUBSET {"index", "show", "create"}}

IdIs1 == <<<<Id, S("1")>>>>

ModelRequests ==
    {Get(u) : u \in {UrlU, UrlU1, UrlU7x, UrlU99, UrlUX, UrlUParam, UrlA}}
    \cup {Request("GET", u, IdIs1, <<>>, <<>>) : u \in {UrlU99, UrlUX, UrlUParam}}
    \cup {Request("POST", UrlU, <<>>, ct, IdIs1) :
            ct \in {<<>>, TextPlain, FormUrlEncoded, MultipartFormData, JsonUtf8,
                    ApplicationJson}}
    \cup {Request("POST", UrlU1, <<>>, TextPlain, <<>>)}

NextModel ==
    \/ \E c \in Controllers : mapModelController(PatUsers, c, <<>>)
    \/ \E req \in ModelRequests : route(req)
    \/ Chain

SpecModel == Init /\ [][NextModel]_vars

(***************************************************************************)
(* SpecTwice: GET /a and GET /a/b, each registered first with handler h1   *)
(* and a middleware list named C, then any number of times again with      *)
(* handler h2 and a middleware list named D.                               *)
(***************************************************************************)
ChainsNamed(name) ==
    {<<>>} \cup {<<Middleware(name, does)>> : does \in Behaviours}

TwicePatterns == {PatA, PatAB}

TwiceRequests == {Get(UrlA), Get(UrlAB), Get(UrlAB2), Get(UrlB)}

NextTwice ==
    \/ \E p \in TwicePatterns, mws \in ChainsNamed("C") :
          /\ <<"GET", pathSegments(p)>> \notin DOMAIN registry
          /\ addRoute("GET", p, Callback("h1"), mws)
    \/ \E p \in TwicePatterns, mws \in ChainsNamed("D") :
          /\ <<"GET", pathSegments(p)>> \in DOMAIN registry
          /\ addRoute("GET", p, Callback("h2"), mws)
    \/ \E req \in TwiceRequests : route(req)
    \/ executeGlobalMiddlewares
    \/ executeRouteMiddlewares
    \/ handleRoute
    \/ resume
    \/ settle
    \/ finish

SpecTwice == Init /\ [][NextTwice]_vars

(***************************************************************************)
(* SpecGroup: one registration call made through a route group on an empty *)
(* router (a direct route, a plain controller or a model controller, with  *)
(* every set of operations), then requests for each method.                *)
(***************************************************************************)
ControllerOps ==
    {"index", "show", "create", "update", "delete", "patch", "options"}

PlainControllers ==
    {[name |-> "users", ops |-> ops] : ops \in SUBSET ControllerOps}

PrefixG  == <<"/", "g">>
PrefixG2 == <<"/", "g", "/">>
RelA     == <<"a">>

UrlGU  == <<"/", "g", "/", "u">>
UrlGU1 == <<"/", "g", "/", "u", "/", "1">>
UrlGA  == <<"/", "g", "/", "a">>

Groups ==
    {RouteGroup(prefix, mws) :
        prefix \in {PrefixG, PrefixG2},
        mws \in {<<>>, <<Middleware("C", "pass")>>}}

CallSiteChains == {<<>>, <<Middleware("D", "pass")>>}

GroupPaths == {PatA, RelA}

GroupRequests ==
    {Request(m, UrlGU, <<>>, <<>>, <<>>) : m \in Methods}
    \cup {Get(UrlGU1), Get(UrlGA), Get(UrlU)}

NextGroup ==
    \/ \E g \in Groups, p \in GroupPaths, mws \in CallSiteChains :
          /\ registry = <<>>
          /\ RouteGroup_addRoute(g, "GET", p, Callback("h1"), mws)
    \/ \E g \in Groups, c \in PlainControllers, mws \in CallSiteChains :
          /\ registry = <<>>
          /\ RouteGroup_mapController(g, PatUsers, c, mws)
    \/ \E g \in Groups, c \in Controllers, mws \in CallSiteChains :
          /\ registry = <<>>
          /\ RouteGroup_mapModelController(g, PatUsers, c, mws)
    \/ \E req \in GroupRequests : route(req)
    \/ executeGlobalMiddlewares
    \/ executeRouteMiddlewares
    \/ handleRoute
    \/ resume
    \/ settle
    \/ finish

SpecGroup == Init /\ [][NextGroup]_vars

(***************************************************************************)
(* SpecController: a plain controller with any set of operations mapped at *)
(* /u on an empty router, then a request for each operation's method and   *)
(* path.                                                                   *)
(***************************************************************************)
ControllerRequests ==
    {Request(m, UrlU, <<>>, <<>>, <<>>) : m \in Methods}
    \cup {Get(UrlU1), Get(UrlA)}

NextController ==
    \/ \E c \in PlainControllers :
          /\ registry = <<>>
          /\ mapController(PatUsers, c, <<>>)
    \/ \E req \in ControllerRequests : route(req)
    \/ executeGlobalMiddlewares
    \/ executeRouteMiddlewares
    \/ handleRoute
    \/ settle
    \/ finish

SpecController == Init /\ [][NextController]_vars

(***************************************************************************)
(* SpecParams: /a, /a/:i and /a/:i/b under GET and POST; requests whose    *)
(* query or body has a field named like the path parameter, or another     *)
(* name, or the same name twice, and bodies that route() does not read.    *)
(***************************************************************************)
IIs7    == <<<<S("i"), S("7")>>>>
JIs7    == <<<<S("j"), S("7")>>>>
IIs7Is8 == <<<<S("i"), S("7")>>, <<S("i"), S("8")>>>>

ParamPatterns == {PatA, PatAId, PatAIdB}

ParamRequests ==
    {Request("GET", u, q, <<>>, <<>>) :
        u \in {UrlAX, UrlAXB, UrlAParam}, q \in {<<>>, IIs7, JIs7}}
    \cup {Request("POST", UrlAX, <<>>, ct, IIs7) :
            ct \in {<<>>, TextPlain, ApplicationJson, JsonUtf8, MultipartFormData}}
    \cup {Request("POST", UrlAX, <<>>, FormUrlEncoded, IIs7Is8),
          Request("POST", UrlAX, IIs7, <<>>, <<>>),
          Request("POST", UrlAParam, <<>>, ApplicationJson, IIs7)}

NextParams ==
    \/ \E m \in RouteMethods, p \in ParamPatterns :
          addRoute(m, p, Callback("h1"), <<>>)
    \/ \E req \in ParamRequests : route(req)
    \/ Chain

SpecParams == Init /\ [][NextParams]_vars

(***************************************************************************)
(* SpecNames: GET routes /a/:i, /a/:i/b, /a/:j and /a/:j/b, registered in  *)
(* any order, so that one parameter node is reached by patterns that name  *)
(* it differently.                                                         *)
(***************************************************************************)
PatAJ  == <<"/", "a", "/", ":", "j">>
PatAJB == <<"/", "a", "/", ":", "j", "/", "b">>

NamePatterns == {PatAId, PatAIdB, PatAJ, PatAJB}

NameRequests == {Get(UrlA), Get(UrlAX), Get(UrlAXB), Get(UrlAParam)}

NextNames ==
    \/ \E p \in NamePatterns, cb \in Handlers : addRoute("GET", p, cb, <<>>)
    \/ \E req \in NameRequests : route(req)
    \/ executeGlobalMiddlewares
    \/ executeRouteMiddlewares
    \/ handleRoute
    \/ settle
    \/ finish

SpecNames == Init /\ [][NextNames]_vars

(***************************************************************************)
(* SpecOptional: the pattern /a/(b), with a trailing optional group, and   *)
(* the unrelated /u, under GET and POST; requests with and without the     *)
(* group's segment.                                                        *)
(***************************************************************************)
PatAOptB == <<"/", "a", "/", "(", "b", ")">>
UrlAOptB == <<"/", "a", "/", "(", "b", ")">>
UrlABB   == <<"/", "a", "/", "b", "/", "b">>

OptionalPatterns == {PatAOptB, PatUsers}

OptionalRequests ==
    {Request(m, u, <<>>, <<>>, <<>>) :
        m \in RouteMethods,
        u \in {UrlRoot, UrlA, UrlAB, UrlAOptB, UrlAX, UrlABB, UrlU}}

NextOptional ==
    \/ \E m \in RouteMethods, p \in OptionalPatterns, cb \in Handlers :
          addRoute(m, p, cb, <<>>)
    \/ \E req \in OptionalRequests : route(req)
    \/ executeGlobalMiddlewares
    \/ executeRouteMiddlewares
    \/ handleRoute
    \/ settle
    \/ finish

SpecOptional == Init /\ [][NextOptional]_vars

(***************************************************************************)
(* SpecConcurrent: /a/:i under GET and POST and an optional global         *)
(* middleware, set up before serving; then route() calls that interleave   *)
(* at their awaits, up to MaxSuspended of them waiting while one runs.     *)
(***************************************************************************)
UrlAY == <<"/", "a", "/", "y">>
UrlAZ == <<"/", "a", "/", "z">>
JIs8  == <<<<S("j"), S("8")>>>>
IIs9  == <<<<S("i"), S("9")>>>>

ConcurrentRequests ==
    {Request("GET", UrlAX, IIs7, <<>>, <<>>),
     Request("GET", UrlAY, JIs8, <<>>, <<>>),
     Request("POST", UrlAZ, <<>>, ApplicationJson, IIs9)}

Serving == ~Idle \/ suspended # <<>>

NextConcurrent ==
    \/ /\ ~Serving
       /\ globalMiddlewares = <<>>
       /\ use(Middleware("A", "pass"))
    \/ \E m \in RouteMethods :
          /\ ~Serving
          /\ addRoute(m, PatAId, Callback("h1"), <<>>)
    \/ \E req \in ConcurrentRequests : route(req)
    \/ decodeBody
    \/ executeGlobalMiddlewares
    \/ executeRouteMiddlewares
    \/ handleRoute
    \/ resume
    \/ settle
    \/ finish
    \/ suspend
    \/ wake

SpecConcurrent == Init /\ [][NextConcurrent]_vars

(***************************************************************************)
(* SpecMonotone: GET routes over literal, parameter and splat patterns     *)
(* that share prefixes, registered in any order between requests.          *)
(***************************************************************************)
MonotonePatterns == {PatA, PatAB, PatAId, PatASplat, PatAIdB}

MonotoneUrls == {UrlA, UrlAB, UrlAX, UrlAXB, UrlAAB, UrlAParam}

NextMonotone ==
    \/ \E p \in MonotonePatterns, cb \in Handlers : addRoute("GET", p, cb, <<>>)
    \/ \E u \in MonotoneUrls : route(Get(u))
    \/ executeGlobalMiddlewares
    \/ executeRouteMiddlewares
    \/ handleRoute
    \/ settle
    \/ finish

SpecMonotone == Init /\ [][NextMonotone]_vars

(***************************************************************************)
(* SpecMethods: /a and /a/:i registered under any of the six methods, each *)
(* with a handler named after the method, and an optional global           *)
(* middleware; requests of every method, of HEAD, and of the lower-case    *)
(* spellings "patch" and "get".                                            *)
(***************************************************************************)
MethodPatterns == {PatA, PatAId}

RequestMethods == Methods \cup {"HEAD", "patch", "get"}

MethodRequests ==
    {Request(m, u, <<>>, <<>>, <<>>) : m \in RequestMethods, u \in {UrlA, UrlAX}}

NextMethods ==
    \/ /\ globalMiddlewares = <<>>
       /\ use(Middleware("A", "pass"))
    \/ \E m \in Methods, p \in MethodPatterns :
          /\ mayRegister({<<m, pathSegments(p)>>})
          /\ addRoute(m, p, Callback(m), <<>>)
    \/ \E req \in MethodRequests : route(req)
    \/ executeGlobalMiddlewares
    \/ executeRouteMiddlewares
    \/ handleRoute
    \/ resume
    \/ settle
    \/ finish

SpecMethods == Init /\ [][NextMethods]_vars

(***************************************************************************)
(* Properties                                                              *)
(***************************************************************************)
Done == pc = "done"

\* The non-empty segments of the request path, and the registration (if any)
\* made for exactly those segments under the request's method.
Segs == pathSegments(request.pathname)
Key  == <<request.method, Segs>>

Last(seq) == seq[Len(seq)]
Front(seq) == SubSeq(seq, 1, Len(seq) - 1)

LiteralToken(tok) == tok[1] \notin {":", "*", "("}
ParamToken(tok) == tok[1] = ":" /\ Len(tok) >= 2
SplatToken(tok) == tok[1] = "*" /\ Len(tok) >= 2

LiteralTokens(toks) == \A k \in 1..Len(toks) : LiteralToken(toks[k])

RoutesOf(method) == {key \in DOMAIN registry : key[1] = method}

HandlerStarts(name) ==
    Cardinality({k \in 1..Len(log) : log[k].stage = "h" /\ log[k].who = name})

NoHandlerStarted == \A k \in 1..Len(log) : log[k].stage # "h"

\* C1: when every route of a method has a literal-only pattern, a request of
\* that method whose non-empty path segments are those of a registered
\* pattern gets the response of the handler registered for that pattern
\* (whatever the registration order), and that handler alone is started.
C1_LiteralRouteReturnsItsHandler ==
    (/\ Done
     /\ request.method \in Methods
     /\ \A key \in RoutesOf(request.method) : LiteralTokens(key[2])
     /\ Key \in DOMAIN registry)
    => /\ response = Response(200, registry[Key].callback.name, <<>>)
       /\ HandlerStarts(registry[Key].callback.name) = 1
       /\ \A k \in 1..Len(log) :
             log[k].stage = "h" => log[k].who = registry[Key].callback.name

\* C1's case: two literal routes with different handlers under one method, and
\* a request for the two-segment one written with doubled and trailing slashes.
C1_Witness ==
    /\ Done
    /\ request.pathname = UrlAB2
    /\ Key \in DOMAIN registry
    /\ \A key \in RoutesOf(request.method) : LiteralTokens(key[2])
    /\ \E other \in RoutesOf(request.method) :
          registry[other].callback # registry[Key].callback
    /\ response.status = 200

\* A route of the request's method whose pattern is literals followed by one
\* final parameter, and whose literals are the request's leading segments.
ParamRouteFor(key, n) ==
    /\ key[1] = request.method
    /\ Len(key[2]) = n
    /\ n >= 1
    /\ ParamToken(Last(key[2]))
    /\ LiteralTokens(Front(key[2]))
    /\ Len(Segs) >= n
    /\ SubSeq(Segs, 1, n - 1) = Front(key[2])

\* No route of the method has the literal `seg` where `key` has its parameter.
NoLiteralSibling(key, seg) ==
    \A other \in RoutesOf(key[1]) :
        ~(/\ Len(other[2]) >= Len(key[2])
          /\ SubSeq(other[2], 1, Len(key[2]) - 1) = Front(key[2])
          /\ other[2][Len(key[2])] = seg)

\* No route of the method continues below the parameter of `key`.
NoRouteBelow(key) ==
    \A other \in RoutesOf(key[1]) :
        ~(/\ Len(other[2]) > Len(key[2])
          /\ SubSeq(other[2], 1, Len(key[2]) - 1) = Front(key[2])
          /\ ParamToken(other[2][Len(key[2])]))

\* C3: for a route ending in a named parameter, a request with as many
\* segments and the same leading literals starts the route's handler with
\* params[name] equal to the segment at the parameter's position, whatever
\* that segment is; with one more segment it gets 404 when nothing is
\* registered below the parameter.
C3_ParamBoundToItsSegment ==
    Done =>
      \A key \in DOMAIN registry :
        LET n    == Len(key[2])
            name == Tail(Last(key[2]))
        IN  /\ (/\ ParamRouteFor(key, n)
                /\ Len(Segs) = n
                /\ NoLiteralSibling(key, Segs[n]))
               => /\ HandlerStarts(registry[key].callback.name) = 1
                  /\ name \in DOMAIN params
                  /\ params[name] = Segs[n]
            /\ (/\ ParamRouteFor(key, n)
                /\ Len(Segs) = n + 1
                /\ NoLiteralSibling(key, Segs[n])
                /\ NoRouteBelow(key))
               => /\ response = send404
                  /\ NoHandlerStarted

\* Where the walk descended into a splat child: the positions k of `node`.
SplatTaken == {k \in 1..Len(node) : node[k] = SPLAT}

\* C4: when the walk takes a splat child at segment position i, the splat
\* name is bound to the segments i..end joined by "/", for every request
\* path, and the walk stops there.
C4_SplatBindsRemainder ==
    \A i \in SplatTaken :
        LET name == methods[request.method][SubSeq(node, 1, i)].splatName
        IN  /\ Len(node) = i
            /\ name \in DOMAIN params
            /\ params[name] = join(SubSeq(Segs, i, Len(Segs)), <<"/">>)

\* C5: at every step of the walk the child is chosen in the order literal
\* child equal to the segment, then parameter child, then splat child; with
\* /a/:i and /a/b registered, /a/b reaches the literal route and binds no i.
C5_LiteralThenParamThenSplat ==
    /\ \A k \in 1..Len(node) :
          LET trie   == methods[request.method]
              parent == SubSeq(node, 1, k - 1)
              seg    == Segs[k]
          IN  node[k] = IF seg \notin {PARAM, SPLAT} /\ has(trie, parent, seg)
                        THEN seg
                        ELSE IF has(trie, parent, PARAM) THEN PARAM
                        ELSE SPLAT
    /\ (/\ Done
        /\ request.method \in Methods
        /\ Segs = <<S("a"), S("b")>>
        /\ Key \in DOMAIN registry
        /\ <<request.method, <<S("a"), <<":", "i">>>>>> \in DOMAIN registry)
       => /\ HandlerStarts(registry[Key].callback.name) = 1
          /\ S("i") \notin DOMAIN params \/ request.query # <<>> \/ request.body # <<>>

\* The walk route() makes for the request in flight.
Walked == walk(methods[request.method], Root, Segs, 1, <<>>)

\* RouteNotFound: no trie for the method, a walk that fails at a segment, or
\* a walk that ends on a node without a stored handler.
RouteNotFound ==
    \/ request.method \notin Methods
    \/ ~Walked.found
    \/ methods[request.method][Walked.node].callback = NoCallback

\* C2: RouteNotFound always surfaces as the 404 response with no route
\* handler invoked, in each of its three cases, under every configuration of
\* routes and global middlewares.
C2_RouteNotFoundIs404 ==
    (Done /\ RouteNotFound) => (response = send404 /\ NoHandlerStarted)

\* The middleware list of the matched node, and whether a handler is stored.
RouteMiddlewares == methods[request.method][node].middlewares
Matched ==
    /\ pc \in {"call", "ret", "done"}
    /\ request.method \in Methods
    /\ methods[request.method][node].callback # NoCallback

MiddlewareAt(kind, index) ==
    IF kind = "g" THEN globalMiddlewares[index + 1] ELSE RouteMiddlewares[index + 1]

\* The chain's stages in the order of the claim: globals as added, then the
\* route's middlewares in list order, then the handler.
ExpectedStages ==
    [k \in 1..Len(globalMiddlewares) |-> <<"g", k - 1, GlobalNames[k]>>]
    \o [k \in 1..Len(RouteMiddlewares) |-> <<"r", k - 1, RouteNames[k]>>]
    \o <<<<"h", 0, "h1">>>>

\* The stages of the log in the order in which each first started.
RECURSIVE FirstStarts(_, _)
FirstStarts(entries, seen) ==
    IF entries = <<>> THEN <<>>
    ELSE
        LET e  == Head(entries)
            id == <<e.stage, e.index, e.who>>
        IN  IF e.stage = "op" \/ id \in seen
            THEN FirstStarts(Tail(entries), seen)
            ELSE <<id>> \o FirstStarts(Tail(entries), seen \cup {id})

IsPrefix(a, b) == Len(a) <= Len(b) /\ SubSeq(b, 1, Len(a)) = a

EveryMiddlewareContinues ==
    /\ \A k \in 1..Len(globalMiddlewares) : globalMiddlewares[k].does # "block"
    /\ \A k \in 1..Len(RouteMiddlewares) : RouteMiddlewares[k].does # "block"

\* C6: for a matched request the stages first start in the order global
\* middlewares as added, route middlewares in list order, handler: at every
\* moment the stages started so far are an initial part of that order, and
\* when every middleware invokes its continuation all of them have started
\* by the time route() settles.
C6_StagesStartInOrder ==
    Matched =>
        /\ IsPrefix(FirstStarts(log, {}), ExpectedStages)
        /\ (Done /\ EveryMiddlewareContinues)
              => FirstStarts(log, {}) = ExpectedStages

\* C6's case: globals [A, B] and route middlewares [C, D], all continuing.
C6_Witness ==
    /\ Done
    /\ Matched
    /\ Len(globalMiddlewares) = 2
    /\ Len(RouteMiddlewares) = 2
    /\ EveryMiddlewareContinues
    /\ FirstStarts(log, {}) =
          <<<<"g", 0, "A">>, <<"g", 1, "B">>, <<"r", 0, "C">>, <<"r", 1, "D">>,
            <<"h", 0, "h1">>>>

\* Stage order: globals before route middlewares before the handler.
Rank(kind) == CASE kind = "g" -> 0 [] kind = "r" -> 1 [] OTHER -> 2

Before(e, f) ==
    \/ Rank(e.stage) < Rank(f.stage)
    \/ Rank(e.stage) = Rank(f.stage) /\ e.index < f.index

\* The log entries of middlewares that returned without calling next().
ShortCircuits ==
    {k \in 1..Len(log) :
        /\ log[k].stage \in {"g", "r"}
        /\ MiddlewareAt(log[k].stage, log[k].index).does = "block"}

NothingLaterStarted(k) == \A j \in 1..Len(log) : ~Before(log[k], log[j])

\* The middlewares that entered before stage entry e.
EarlierMiddlewares(e) ==
    {globalMiddlewares[i] :
        i \in {i \in 1..Len(globalMiddlewares) : e.stage = "r" \/ i - 1 < e.index}}
    \cup {RouteMiddlewares[i] :
        i \in {i \in 1..Len(RouteMiddlewares) : e.stage = "r" /\ i - 1 < e.index}}

\* C7 as claimed: when a middleware returns without invoking its
\* continuation, no later middleware and not the handler is executed, and
\* route() resolves to exactly the response that middleware returned.
C7_ShortCircuitResponseIsRouteResponse ==
    Done =>
        \A k \in ShortCircuits :
            /\ NothingLaterStarted(k)
            /\ response = ownResponse(MiddlewareAt(log[k].stage, log[k].index))

\* C7 as amended: when a middleware returns without invoking its
\* continuation, no later middleware and not the handler is executed, and
\* route() resolves to the response that middleware returned provided every
\* middleware before it returns its continuation's response unchanged.
C7_ShortCircuitHaltsChain ==
    \A k \in ShortCircuits :
        /\ NothingLaterStarted(k)
        /\ (Done /\ \A mw \in EarlierMiddlewares(log[k]) : mw.does \in {"pass", "twice"})
              => response = ownResponse(MiddlewareAt(log[k].stage, log[k].index))

\* C7's case: the second route middleware short-circuits after two globals
\* and a route middleware that all continue.
C7_Witness ==
    /\ Done
    /\ Len(globalMiddlewares) = 2
    /\ \E k \in ShortCircuits : log[k].stage = "r" /\ log[k].index = 1
    /\ response = Response(403, "D", <<>>)

\* C8: no middleware is invoked more than once per request, and the handler
\* at most once, whatever the middlewares do with their continuation.
C8_EachStageAtMostOnce ==
    \A i, j \in 1..Len(log) :
        (i # j /\ log[i].stage # "op")
            => <<log[i].stage, log[i].index>> # <<log[j].stage, log[j].index>>

OperationStarts(op) ==
    {k \in 1..Len(log) : log[k].stage = "op" /\ log[k].who = op}

\* The request is a GET for /u/<segment> and the model controller's show
\* route is registered there.
ShowKey == <<"GET", <<S("u"), <<":", "i", "d">>>>>>
ShowRequested ==
    /\ Done
    /\ request.method = "GET"
    /\ Len(Segs) = 2
    /\ Segs[1] = S("u")
    /\ ShowKey \in DOMAIN registry
    /\ registry[ShowKey].callback.kind = "modelShow"

\* C9: GET path/:id on a model controller with show parses the id path
\* parameter as an integer and looks the entity up: on a miss the response
\* is 404 and show is never invoked; on a hit show is invoked exactly once
\* with that entity and its response is returned.
C9_ShowLooksUpThePathId ==
    ShowRequested =>
        LET model == find(parseInt(Segs[2]))
        IN  IF model.found
            THEN /\ Cardinality(OperationStarts("show")) = 1
                 /\ \A k \in OperationStarts("show") : log[k].arg = <<model.id>>
                 /\ response = Response(200, "show", <<model.id>>)
            ELSE /\ OperationStarts("show") = {}
                 /\ response = send404

\* The request is a POST for /u and the model controller's create route is
\* registered there.
CreateRequested ==
    /\ Done
    /\ request.method = "POST"
    /\ Key \in DOMAIN registry
    /\ registry[Key].callback.kind = "modelCreate"

\* C10: a POST to a model controller's create route whose Content-Type is
\* not application/json (another type, a parameterised one, or none) gets
\* 415, and the controller's create is never invoked.
C10_CreateWithoutJsonIs415 ==
    (CreateRequested /\ request.contentType # ApplicationJson)
        => /\ response = Response(415, "Unsupported Media Type", <<>>)
           /\ OperationStarts("create") = {}

\* C10's case: POST /u with Content-Type: text/plain answered 415.
C10_Witness ==
    /\ CreateRequested
    /\ request.contentType = TextPlain
    /\ response.status = 415
    /\ HandlerStarts("users") = 1

\* C11: a POST to a model controller's create route with Content-Type
\* application/json and a valid JSON body, dispatched through route(),
\* invokes the controller's create exactly once with the parsed body and
\* returns create's response.
C11_JsonCreateInvokesCreate ==
    (CreateRequested /\ request.contentType = ApplicationJson)
        => /\ Cardinality(OperationStarts("create")) = 1
           /\ \A k \in OperationStarts("create") : log[k].arg = request.body
           /\ response = Response(201, "create", request.body)

\* The route middlewares of a registration that return without calling next().
Blocks(middlewares) ==
    {k \in 1..Len(middlewares) : middlewares[k].does = "block"}

\* C12: after the same (method, pattern) has been registered more than once
\* with different handlers, only the last registration is in effect: no
\* error is raised, a matching request runs the last registration's
\* middleware list and (unless one of them short-circuits) its handler, and
\* no handler or route middleware of an earlier registration is started.
C12_LastRegistrationInEffect ==
    (Done /\ Key \in DOMAIN registry) =>
        LET last == registry[Key]
        IN  /\ ~response.threw
            /\ RouteMiddlewares = last.middlewares
            /\ \A k \in 1..Len(log) :
                  /\ log[k].stage = "h" => log[k].who = last.callback.name
                  /\ log[k].stage = "r" =>
                        /\ log[k].index < Len(last.middlewares)
                        /\ log[k].who = last.middlewares[log[k].index + 1].name
            /\ \A i \in 1..Len(last.middlewares) :
                  (\A j \in 1..(i - 1) : j \notin Blocks(last.middlewares))
                     => \E k \in 1..Len(log) :
                           log[k].stage = "r" /\ log[k].index = i - 1
            /\ Blocks(last.middlewares) = {}
                  => HandlerStarts(last.callback.name) >= 1

\* C12's case: GET /a/b registered with h1 and then again with h2 and the
\* middleware list [D]; the request ran D and reached h2.
C12_Witness ==
    /\ Done
    /\ Segs = <<S("a"), S("b")>>
    /\ Key \in DOMAIN registry
    /\ registry[Key].callback = Callback("h2")
    /\ registry[Key].middlewares = <<Middleware("D", "pass")>>
    /\ \E k \in 1..Len(log) : log[k].stage = "r" /\ log[k].who = "D"
    /\ HandlerStarts("h2") = 1
    /\ response = Response(200, "h2", <<>>)

\* The method and path under which a controller operation is routed.
OpMethod(op) ==
    CASE op = "index"   -> "GET"
      [] op = "show"    -> "GET"
      [] op = "create"  -> "POST"
      [] op = "update"  -> "PUT"
      [] op = "delete"  -> "DELETE"
      [] op = "patch"   -> "PATCH"
      [] op = "options" -> "OPTIONS"

OpPath(op, path) == IF op = "show" THEN path \o ShowSuffix ELSE path

\* The trie node a pattern ends on.
Terminal(path) == descend((Root :> TrieNode), Root, splitPath(path)).node

\* In `tries`, the method has a route for the path with this middleware list.
Registered(tries, method, path, middlewares) ==
    LET trie == tries[method]
        at   == Terminal(path)
    IN  /\ at \in DOMAIN trie
        /\ trie[at].callback # NoCallback
        /\ trie[at].pattern = createPattern(path)
        /\ trie[at].middlewares = middlewares

\* A step that changes some trie.
RegistrationStep == Idle /\ methods' # methods

GroupRegistrationsForwarded ==
    \A g \in Groups, mws \in CallSiteChains :
        /\ \A p \in GroupPaths :
              RouteGroup_addRoute(g, "GET", p, Callback("h1"), mws)
                 => Registered(methods', "GET", g.prefix \o p, g.middlewares \o mws)
        /\ \A c \in PlainControllers :
              RouteGroup_mapController(g, PatUsers, c, mws)
                 => \A op \in c.ops :
                       Registered(methods', OpMethod(op),
                                  g.prefix \o OpPath(op, PatUsers),
                                  g.middlewares \o mws)
        /\ \A c \in Controllers :
              RouteGroup_mapModelController(g, PatUsers, c, mws)
                 => \A op \in c.ops :
                       Registered(methods', OpMethod(op),
                                  g.prefix \o OpPath(op, PatUsers),
                                  g.middlewares \o mws)

\* C13: every registration made through a route group (addRoute, and each
\* route of a nested mapController or mapModelController, for every
\* controller operation including patch) reaches the router with the
\* group's prefix prepended to the path and with the group's middlewares
\* followed by the call-site middlewares as its middleware list.
C13_GroupPrependsPrefixAndMiddlewares ==
    [][RegistrationStep => GroupRegistrationsForwarded]_vars

\* The (method, node) pairs that hold a handler.
HandlerNodes(tries) ==
    {mn \in Methods \X UNION {DOMAIN tries[m] : m \in Methods} :
        /\ mn[2] \in DOMAIN tries[mn[1]]
        /\ tries[mn[1]][mn[2]].callback # NoCallback}

\* The request path on which an operation mapped at /u is reached.
OpUrl(op) == IF op = "show" THEN UrlU1 ELSE UrlU

\* mapController adds one route per operation of the controller, bound to
\* that operation, and nothing else.
OneRoutePerOperation ==
    \A c \in PlainControllers :
        mapController(PatUsers, c, <<>>) =>
            LET added == {<<OpMethod(op), Terminal(OpPath(op, PatUsers))>> :
                             op \in c.ops}
            IN  /\ HandlerNodes(methods') = HandlerNodes(methods) \cup added
                /\ Cardinality(added) = Cardinality(c.ops)
                /\ \A op \in c.ops :
                      methods'[OpMethod(op)][Terminal(OpPath(op, PatUsers))].callback
                         = Bound(c.name, op)

\* A request for the method and path of an operation that was not mapped
\* gets 404 and starts no handler; one for a mapped operation starts it.
AbsentOperationIs404 ==
    \A op \in ControllerOps :
        (/\ Done
         /\ request.method = OpMethod(op)
         /\ request.pathname = OpUrl(op))
        => IF <<OpMethod(op), pathSegments(OpPath(op, PatUsers))>> \in DOMAIN registry
           THEN OperationStarts(op) # {}
           ELSE response = send404 /\ NoHandlerStarted

\* C14: mapController registers exactly one route per operation present on
\* the controller and none for an absent one (index GET path, show GET
\* path/:id, create POST path, update PUT path, delete DELETE path, patch
\* PATCH path, options OPTIONS path); for every set of present operations a
\* request for an absent operation's method and path gets 404.
C14_OneRoutePerPresentOperation ==
    /\ [][RegistrationStep => OneRoutePerOperation]_vars
    /\ [](AbsentOperationIs404)

\* C14's case: a controller with index and patch only; PATCH /u reached and
\* DELETE /u answered 404.
C14_Witness ==
    /\ Done
    /\ DOMAIN registry = {<<"GET", <<S("u")>>>>, <<"PATCH", <<S("u")>>>>}
    /\ request.method = "DELETE"
    /\ request.pathname = UrlU
    /\ response = send404

\* The entries route() merges into the parameter map before the walk: the
\* query of a GET, the decoded body of another method when its Content-Type
\* is one route() reads.
Source ==
    IF request.method = "GET" THEN request.query
    ELSE IF readsBody(request) THEN request.body
    ELSE <<>>

Merged == assignAll(<<>>, Source)

\* The positions at which the walk bound the parameter `name` from the path.
BoundAt(name) ==
    {k \in 1..Len(node) :
        /\ node[k] = PARAM
        /\ Segs[k] # PARAM
        /\ methods[request.method][SubSeq(node, 1, k)].paramName = name}

\* C15 as claimed: the map is merged in the order path, query (GET), body
\* (mutating methods): when a path parameter and a query parameter or body
\* field share a name, the handler sees the query or body value.
C15_QueryOrBodyOverwritesPath ==
    (Done /\ Matched) =>
        \A name \in DOMAIN Merged :
            BoundAt(name) # {} => params[name] = Merged[name]

\* C15 as amended: the query (GET) or the parsed body (mutating methods) is
\* merged first and the path parameters are bound last: a name the walk
\* binds from the path has the path segment as its value whatever the query
\* or body says, and every other query or body field keeps its (last) value.
C15_PathOverwritesQueryAndBody ==
    (Done /\ Matched) =>
        /\ \A name \in DOMAIN Merged : name \in DOMAIN params
        /\ \A name \in DOMAIN params :
              IF BoundAt(name) # {}
              THEN \E k \in BoundAt(name) :
                      /\ params[name] = Segs[k]
                      /\ \A j \in BoundAt(name) : j <= k
              ELSE name \in DOMAIN Merged /\ params[name] = Merged[name]

\* C15's case: /a/:i matched by GET /a/x?i=7; the handler ran with i = "x".
C15_Witness ==
    /\ Done
    /\ Matched
    /\ request.method = "GET"
    /\ request.pathname = UrlAX
    /\ request.query = IIs7
    /\ BoundAt(S("i")) = {2}
    /\ params[S("i")] = S("x")
    /\ HandlerStarts("h1") = 1

\* The positions of a pattern's named parameters, and the trie node of the
\* pattern's k-th token.
ParamPositions(path) ==
    {k \in 1..Len(splitPath(path)) : paramMatch(splitPath(path)[k])}

NodeOf(path, k) == SubSeq(Terminal(path), 1, k)

NameSetByFirstRegistration ==
    \A p \in NamePatterns, cb \in Handlers :
        addRoute("GET", p, cb, <<>>) =>
            \A k \in ParamPositions(p) :
                methods'["GET"][NodeOf(p, k)].paramName =
                    IF NodeOf(p, k) \in DOMAIN methods["GET"]
                    THEN methods["GET"][NodeOf(p, k)].paramName
                    ELSE Tail(splitPath(p)[k])

\* The walk binds a segment under the name stored on the parameter node.
BoundUnderStoredName ==
    (Done /\ Matched) =>
        /\ \A k \in 1..Len(node) :
              (node[k] = PARAM /\ Segs[k] # PARAM) =>
                  LET name == methods[request.method][SubSeq(node, 1, k)].paramName
                  IN  name \in DOMAIN params /\ params[name] = Segs[k]
        /\ \A name \in DOMAIN params : BoundAt(name) # {}

C17_NoMiddlewareWithoutMatch ==
    (Done /\ RouteNotFound) =>
        \A k \in 1..Len(log) : log[k].stage \notin {"g", "r"}

\* A route for /a/(b) is registered under the request's method.
OptionalRouteRegistered ==
    /\ Done
    /\ request.method \in Methods
    /\ <<request.method, pathSegments(PatAOptB)>> \in DOMAIN registry

\* The request reached the handler stored on the terminal node of /a/(b).
ReachedOptionalRoute ==
    /\ node = Terminal(PatAOptB)
    /\ HandlerStarts(registry[<<request.method, pathSegments(PatAOptB)>>].callback.name) = 1

\* C18: a route whose pattern ends in an optional group, /a/(b), is matched
\* by the trie walk for exactly the request paths its compiled validator
\* accepts: /a/b and /a both reach the handler.
C18_WalkAgreesWithValidator ==
    OptionalRouteRegistered =>
        /\ ReachedOptionalRoute
              <=> test(methods[request.method][Terminal(PatAOptB)].pattern,
                       request.pathname)
        /\ request.pathname \in {UrlA, UrlAB} => ReachedOptionalRoute

\* A step of request handling: any step of a route() call, from its start to
\* the hand-over of its response, and the switches between calls.
DispatchStep ==
    \/ \E req \in ConcurrentRequests : route(req)
    \/ decodeBody
    \/ executeGlobalMiddlewares
    \/ executeRouteMiddlewares
    \/ handleRoute
    \/ resume
    \/ settle
    \/ finish
    \/ suspend
    \/ wake

\* Every value a request can contribute to its parameter map: its path
\* segments and the joined tails of its path, its query values, its body
\* fields.
OwnValues(req) ==
    LET segs == pathSegments(req.pathname)
    IN  {segs[k] : k \in 1..Len(segs)}
        \cup {join(SubSeq(segs, k, Len(segs)), <<"/">>) : k \in 1..Len(segs)}
        \cup {req.query[k][2] : k \in 1..Len(req.query)}
        \cup {req.body[k][2] : k \in 1..Len(req.body)}

\* The map route() builds for the request when no other call is in flight.
AloneParams(req) ==
    walk(methods[req.method], Root, pathSegments(req.pathname), 1,
         assignAll(<<>>, IF req.method = "GET" THEN req.query
                         ELSE IF readsBody(req) THEN req.body ELSE <<>>)).params

\* The calls in flight: the running one and the waiting ones.
InFlight ==
    {suspended[k] : k \in 1..Len(suspended)}
    \cup (IF Idle THEN {} ELSE {Context})

OwnParamsOnly ==
    \A call \in InFlight :
        call.pc \in {"call", "ret", "done"} /\ call.request.method \in Methods =>
            /\ \A name \in DOMAIN call.params :
                  call.params[name] \in OwnValues(call.request)
            /\ call.node # Root => call.params = AloneParams(call.request)

\* C19: request handling is read-only: with route() calls interleaved at
\* their awaits, no step of dispatch changes the trie of any method
\* (children, handlers, stored names, route middleware lists) or the global
\* middleware list, and each request's parameter map holds only values of
\* its own path, query and body.
C19_DispatchIsReadOnly ==
    /\ [][DispatchStep =>
            /\ methods' = methods
            /\ globalMiddlewares' = globalMiddlewares]_vars
    /\ [](OwnParamsOnly)

\* C19's case: GET /a/x?i=7 waits in its chain with i = "x" while
\* POST /a/z with body i = 9 has reached its handler with i = "z".
C19_Witness ==
    /\ Len(suspended) = 1
    /\ suspended[1].request.pathname = UrlAX
    /\ suspended[1].pc = "ret"
    /\ suspended[1].params = (S("i") :> S("x"))
    /\ pc = "ret"
    /\ request.pathname = UrlAZ
    /\ params = (S("i") :> S("z"))
    /\ HandlerStarts("h1") = 1

\* The walk of GET u in a trie, and whether it reaches a route's handler.
WalkOf(trie, u) == walk(trie, Root, pathSegments(u), 1, <<>>)

Reaches(trie, u) ==
    WalkOf(trie, u).found /\ trie[WalkOf(trie, u).node].callback # NoCallback

\* GET u has the same outcome in the tries before and after the step: the
\* same node, handler and middleware list, and the same bindings.
SameOutcome(u) ==
    LET before == WalkOf(methods["GET"], u)
        after  == WalkOf(methods'["GET"], u)
    IN  /\ after.found
        /\ after.node = before.node
        /\ after.params = before.params
        /\ methods'["GET"][after.node] = methods["GET"][before.node]

\* The pattern p puts, beside a node of the walk of u, a child that the walk
\* prefers to the one it took: a literal child equal to the segment (the
\* ":param" and "*splat" children are literal children for the segments
\* ":param" and "*splat") where the walk took another child, or a
\* parameter child where the walk took the splat child.
Preferred(p, u) ==
    LET new  == Terminal(p)
        took == WalkOf(methods["GET"], u).node
        segs == pathSegments(u)
    IN  \E k \in 1..Len(took) :
            /\ k <= Len(new)
            /\ SubSeq(new, 1, k - 1) = SubSeq(took, 1, k - 1)
            /\ new[k] # took[k]
            /\ new[k] = segs[k] \/ (new[k] = PARAM /\ took[k] = SPLAT)

\* C20 as claimed: registering an additional route at a different terminal
\* node never changes the outcome of a request that reached another
\* route's handler before: same handler, same parameter bindings.
C20_RegistrationNeverChangesOutcome ==
    [][RegistrationStep =>
         \A p \in MonotonePatterns, cb \in Handlers :
             addRoute("GET", p, cb, <<>>) =>
                 \A u \in MonotoneUrls :
                     (/\ Reaches(methods["GET"], u)
                      /\ Terminal(p) # WalkOf(methods["GET"], u).node)
                     => SameOutcome(u)
      ]_vars

\* C20 as amended: registering an additional route at a different terminal
\* node leaves the outcome of a request that reached another route's
\* handler unchanged unless the new pattern adds, along the request's walk,
\* a child of higher priority than the one the walk took.
C20_RegistrationKeepsOutcomeUnlessPreferred ==
    [][RegistrationStep =>
         \A p \in MonotonePatterns, cb \in Handlers :
             addRoute("GET", p, cb, <<>>) =>
                 \A u \in MonotoneUrls :
                     (/\ Reaches(methods["GET"], u)
                      /\ Terminal(p) # WalkOf(methods["GET"], u).node
                      /\ ~Preferred(p, u))
                     => SameOutcome(u)
      ]_vars

\* C20's case: /a/:i and /a/:i/b and /a/b are all registered and GET /a/x
\* is still answered by the route /a/:i with i = "x".
C20_Witness ==
    /\ Done
    /\ request.pathname = UrlAX
    /\ {<<"GET", pathSegments(p)>> : p \in {PatAId, PatAIdB, PatAB}}
          \subseteq DOMAIN registry
    /\ node = Terminal(PatAId)
    /\ params = (S("i") :> S("x"))
    /\ HandlerStarts(registry[<<"GET", pathSegments(PatAId)>>].callback.name) = 1

\* What route() finds for a request in the given tries: no trie, a failed
\* walk, or the node reached with its handler, middleware list and bindings.
OutcomeIn(tries, req) ==
    IF toUpperCase(req.method) \notin Methods THEN <<"no trie">>
    ELSE LET trie == tries[toUpperCase(req.method)]
             w    == walk(trie, Root, pathSegments(req.pathname), 1, <<>>)
         IN  IF w.found THEN <<"found", w.node, trie[w.node], w.params>>
             ELSE <<"not found">>

\* addRoute for m leaves the five other tries and the global middleware list
\* as they were, and with them the outcome of every request of another
\* method.
OtherMethodsUntouched ==
    \A m \in Methods, p \in MethodPatterns :
        addRoute(m, p, Callback(m), <<>>) =>
            /\ \A other \in Methods \ {m} : methods'[other] = methods[other]
            /\ globalMiddlewares' = globalMiddlewares
            /\ \A req \in MethodRequests :
                  toUpperCase(req.method) # m
                     => OutcomeIn(methods', req) = OutcomeIn(methods, req)

\* Every handler that starts was registered under the request's method.
OnlyOwnMethodHandlers ==
    ~Idle =>
        \A k \in 1..Len(log) :
            log[k].stage = "h" => log[k].who = toUpperCase(request.method)

\* C21: method isolation: addRoute for method m changes only the trie of m;
\* the tries of the five other methods and the global middleware list are
\* unchanged, a request of another method has the same outcome before and
\* after, and a handler registered under m is never invoked for a request
\* of another method.
C21_MethodIsolation ==
    /\ [][RegistrationStep => OtherMethodsUntouched]_vars
    /\ [](OnlyOwnMethodHandlers)

\* C21's case: /a is registered under GET and PUT but not under POST, a
\* global middleware is installed, and POST /a was answered 404 with no
\* handler started.
C21_Witness ==
    /\ Done
    /\ request.method = "POST"
    /\ request.pathname = UrlA
    /\ <<"GET", <<S("a")>>>> \in DOMAIN registry
    /\ <<"PUT", <<S("a")>>>> \in DOMAIN registry
    /\ <<"POST", <<S("a")>>>> \notin DOMAIN registry
    /\ Len(globalMiddlewares) = 1
    /\ response = send404
    /\ NoHandlerStarted

====
